---- MODULE Spec2Model ----
(***************************************************************************)
(* The flash proxy of esp_littlefs (src/src/littlefs_proxy_api.c): the     *)
(* block-device callbacks read / prog / erase / sync hand each request to  *)
(* one proxy task through the shared current_flash_op, flash_op_result and *)
(* flash_proxy_buf, a task notification and a binary semaphore.            *)
(*                                                                         *)
(* Caller tasks and proxy tasks are processes; each action is one          *)
(* statement (or one run of statements with no scheduling point that       *)
(* matters) of the C source.  FreeRTOS, the heap and esp_partition are the *)
(* environment: object creation and allocation may fail, device calls may  *)
(* return an error.  A load or store through an invalid pointer, and a     *)
(* failed configASSERT, raise the CPU exception / abort of the target and  *)
(* the panic handler halts the system (panicked).                          *)
(***************************************************************************)
EXTENDS Integers, Sequences, FiniteSets, TLC

\* ---------------------------------------------------------------- constants
FLASH_OP_NONE == 0
FLASH_OP_READ == 1
FLASH_OP_WRITE == 2
FLASH_OP_ERASE == 3
FLASH_OP_INVALID == 4

NULL == 0
ESP_OK == 0
ESP_FAIL == -1
ESP_ERR_INVALID_ARG == 258
LFS_ERR_IO == -5

\* ------------------------------------------------------------------- bounds
BlockSize == 2      \* c->block_size, bytes per block
BlockCount == 2     \* blocks per partition
MaxCalls == 4       \* entry-point invocations explored in one run
MaxCallsConcurrent == 3   \* the same, with concurrent callers
MaxCallsLive == 3   \* the same, in the runs checked for liveness
MaxCallsOffsets == 3   \* the same, in the runs with block indices of any size
MaxSems == 2        \* semaphores the heap has room for
MaxTasks == 2       \* proxy tasks the heap has room for

\* size_t, lfs_block_t, lfs_off_t and lfs_size_t are 32 bits wide on the
\* target. The model checker's integers end at 2^31 - 1, so the machine word is
\* modelled 30 bits wide: unsigned arithmetic wraps at WordModulus.
WordModulus == 1073741824

Callers == {1, 2}            \* caller tasks (the filesystem engine's threads)
Partitions == {1, 2}         \* efs->partition handles
Addrs == {1, 2}              \* heap addresses the allocator may return
Bytes == {"AA", "FF"}        \* byte values; "FF" is the erased state
ErasedByte == "FF"
Uninit == "??"               \* an indeterminate byte of memory never written
DevErrs == {ESP_FAIL, ESP_ERR_INVALID_ARG}   \* non-success esp_err_t values

DevSize == BlockCount * BlockSize
Blocks == 0 .. (BlockCount - 1)
SemIds == 1 .. MaxSems
TaskIds == 1 .. MaxTasks
FsOps == {"read", "prog", "erase"}

VARIABLES
  operation_done_sem,       \* SemaphoreHandle_t: NULL or a semaphore id
  flash_proxy_task_handle,  \* TaskHandle_t: NULL or a task id
  current_flash_op,         \* flash_op_t
  flash_op_result,          \* int
  flash_proxy_buf,          \* uint8_t*: NULL or a heap address
  flash_proxy_buf_size,     \* size_t
  bufMem,                   \* the bytes of the block flash_proxy_buf points to
  semCount,                 \* per created semaphore: 0 (empty) or 1 (given)
  semsCreated,              \* semaphores created so far
  tasksCreated,             \* proxy tasks created so far
  taskPc,                   \* per proxy task: "absent", "wait", "dispatch", "give"
  notifyVal,                \* per proxy task: its notification value
  taskErr,                  \* per proxy task: the local esp_err_t err
  flash,                    \* per partition: the bytes the device holds
  pc,                       \* per caller: where it is in its entry point
  call,                     \* per caller: arguments and locals of the running call
  panicked,                 \* the system took an exception / abort
  ncalls,                   \* entry-point invocations so far
  efs,                      \* c->context: the mounted esp_littlefs_t (its partition)
  hist                      \* history of signals and device calls (observation only)

vars == <<operation_done_sem, flash_proxy_task_handle, current_flash_op,
          flash_op_result, flash_proxy_buf, flash_proxy_buf_size, bufMem,
          semCount, semsCreated, tasksCreated, taskPc, notifyVal, taskErr,
          flash, pc, call, panicked, ncalls, efs, hist>>

\* ------------------------------------------------------------------ helpers
Max(a, b) == IF a >= b THEN a ELSE b

SeqsOf(S, n) == [1 .. n -> S]

\* The n bytes of f (a function on 0 .. DevSize-1) starting at off.
Range(f, off, n) == [i \in 1 .. n |-> f[off + i - 1]]

NoCall ==
  [op |-> "none", partition |-> NULL, block_size |-> 0, block |-> 0, off |-> 0,
   size |-> 0, data |-> <<>>, part_off |-> 0, started |-> FALSE, allocFailed |-> FALSE,
   sem |-> NULL, out |-> <<>>, ret |-> 0, served |-> 0]

NoDev == [kind |-> FLASH_OP_NONE, partition |-> NULL, off |-> 0, buffer |-> NULL,
          size |-> 0]

NoProg == [valid |-> FALSE, partition |-> NULL, block |-> 0, off |-> 0, size |-> 0,
           data |-> <<>>, ret |-> 0, err |-> ESP_OK]

\* ------------------------------------------------------------------- Init
\* The statics of lines 51-79 and a freshly erased device.
Init ==
  /\ operation_done_sem = NULL
  /\ flash_proxy_task_handle = NULL
  /\ current_flash_op = [type |-> FLASH_OP_NONE, partition |-> NULL, part_off |-> 0,
                         buffer |-> NULL, size |-> 0]
  /\ flash_op_result = 0
  /\ flash_proxy_buf = NULL
  /\ flash_proxy_buf_size = 0
  /\ bufMem = <<>>
  /\ semCount = [s \in SemIds |-> 0]
  /\ semsCreated = 0
  /\ tasksCreated = 0
  /\ taskPc = [t \in TaskIds |-> "absent"]
  /\ notifyVal = [t \in TaskIds |-> 0]
  /\ taskErr = [t \in TaskIds |-> ESP_OK]
  /\ flash = [p \in Partitions |-> [a \in 0 .. (DevSize - 1) |-> ErasedByte]]
  /\ pc = [c \in Callers |-> "idle"]
  /\ call = [c \in Callers |-> NoCall]
  /\ panicked = FALSE
  /\ ncalls = 0
  /\ efs \in [partition : Partitions]
  /\ hist = [wakes |-> 0, devCalls |-> 0, lastDev |-> NoDev, owner |-> 0,
             servedOwner |-> 0, overlapped |-> FALSE, maxReq |-> 0,
             grown |-> FALSE, lastProg |-> NoProg, prevFailed |-> FALSE]

\* --------------------------------------------------------------- frame sets
startVars == <<operation_done_sem, flash_proxy_task_handle>>
bufVars == <<flash_proxy_buf, flash_proxy_buf_size, bufMem>>
rtosVars == <<semCount, semsCreated, tasksCreated, taskPc, notifyVal, taskErr>>

\* Another caller is inside an entry point when c enters one.
Overlaps(c) == \E d \in Callers \ {c} : pc[d] \notin {"idle", "returned"}

\* What a run explores: how many entry-point invocations, on which blocks and
\* (off, size) pairs.
Lim(calls, blocks, spans) == [calls |-> calls, blocks |-> blocks, spans |-> spans]

Enter(c, lim) ==
  /\ ~panicked
  /\ pc[c] = "idle"
  /\ ncalls < lim.calls
  /\ ncalls' = ncalls + 1
  /\ UNCHANGED efs

\* --------------------------------------------------- start_flash_proxy_task
\* Line 85: the test of the handle.
start_flash_proxy_task(c, lim) ==
  /\ Enter(c, lim)
  /\ call' = [call EXCEPT ![c] = [NoCall EXCEPT !.op = "start"]]
  /\ pc' = [pc EXCEPT ![c] = IF flash_proxy_task_handle = NULL
                              THEN "create_sem" ELSE "returned"]
  /\ hist' = [hist EXCEPT !.overlapped = @ \/ Overlaps(c)]
  /\ UNCHANGED <<startVars, current_flash_op, flash_op_result, bufVars, rtosVars,
                 flash, panicked>>

\* Line 86: xSemaphoreCreateBinary returns a new empty semaphore, or NULL when
\* the heap has no room for it.
start_create_sem(c) ==
  /\ ~panicked
  /\ pc[c] = "create_sem"
  /\ \/ /\ semsCreated < MaxSems
        /\ semsCreated' = semsCreated + 1
        /\ operation_done_sem' = semsCreated + 1
        /\ semCount' = [semCount EXCEPT ![semsCreated + 1] = 0]
     \/ /\ operation_done_sem' = NULL
        /\ UNCHANGED <<semsCreated, semCount>>
  /\ pc' = [pc EXCEPT ![c] = "create_task"]
  /\ UNCHANGED <<flash_proxy_task_handle, current_flash_op, flash_op_result, bufVars,
                 tasksCreated, taskPc, notifyVal, taskErr, flash, call, panicked,
                 ncalls, efs, hist>>

\* start_create_task creating the task with a notification already pending.
start_create_task_Notified(c) ==
  /\ ~panicked
  /\ pc[c] = "create_task"
  /\ \/ /\ tasksCreated < MaxTasks
        /\ tasksCreated' = tasksCreated + 1
        /\ taskPc' = [taskPc EXCEPT ![tasksCreated + 1] = "wait"]
        /\ notifyVal' = [notifyVal EXCEPT ![tasksCreated + 1] = 1]
        /\ flash_proxy_task_handle' = tasksCreated + 1
     \/ UNCHANGED <<tasksCreated, taskPc, notifyVal, flash_proxy_task_handle>>
  /\ pc' = [pc EXCEPT ![c] = "returned"]
  /\ UNCHANGED <<operation_done_sem, current_flash_op, flash_op_result, bufVars,
                 semCount, semsCreated, taskErr, flash, call, panicked,
                 ncalls, efs, hist>>

\* Lines 87-88: xTaskCreate creates the task and stores its handle, or fails and
\* stores nothing; its return value is not looked at.
start_create_task(c) ==
  /\ ~panicked
  /\ pc[c] = "create_task"
  /\ \/ /\ tasksCreated < MaxTasks
        /\ tasksCreated' = tasksCreated + 1
        /\ taskPc' = [taskPc EXCEPT ![tasksCreated + 1] = "wait"]
        /\ flash_proxy_task_handle' = tasksCreated + 1
     \/ UNCHANGED <<tasksCreated, taskPc, flash_proxy_task_handle>>
  /\ pc' = [pc EXCEPT ![c] = "returned"]
  /\ UNCHANGED <<operation_done_sem, current_flash_op, flash_op_result, bufVars,
                 semCount, semsCreated, notifyVal, taskErr, flash, call, panicked,
                 ncalls, efs, hist>>

\* The entry point has returned to its caller.
Return(c) ==
  /\ ~panicked
  /\ pc[c] = "returned"
  /\ pc' = [pc EXCEPT ![c] = "idle"]
  /\ call' = [call EXCEPT ![c] = NoCall]
  /\ UNCHANGED <<startVars, current_flash_op, flash_op_result, bufVars, rtosVars,
                 flash, panicked, ncalls, efs, hist>>

\* ------------------------------------------------------------ the device
\* esp_partition_read / write / erase_range as the proxy task calls them. Each
\* yields the set of outcomes [err, flash, mem, trap]: the status returned, the
\* device and scratch contents afterwards, or a trap.
DevOutcome(e, f, m) == [err |-> e, flash |-> f, mem |-> m, trap |-> FALSE]
DevTrap == [err |-> ESP_FAIL, flash |-> flash, mem |-> bufMem, trap |-> TRUE]
DevFails == {DevOutcome(e, flash, bufMem) : e \in DevErrs}

InRange(op) ==
  /\ op.partition \in Partitions
  /\ op.part_off + op.size <= DevSize

\* The buffer of the request is memory the call may touch for size bytes.
BufUsable(op) ==
  \/ op.size = 0
  \/ /\ op.buffer # NULL
     /\ op.buffer = flash_proxy_buf
     /\ op.size <= Len(bufMem)

\* A buffer that is NULL is rejected or trapped on; one that is dangling or too
\* short is written or read outside the live block, which may also go unseen.
BadBuffer(op) ==
  {DevTrap} \cup DevFails
    \cup (IF op.buffer # NULL THEN {DevOutcome(ESP_OK, flash, bufMem)} ELSE {})

esp_partition_read(op) ==
  IF op.partition \notin Partitions THEN {DevTrap}
  ELSE IF ~InRange(op) THEN {DevOutcome(ESP_ERR_INVALID_ARG, flash, bufMem)}
  ELSE IF ~BufUsable(op) THEN BadBuffer(op)
  ELSE {DevOutcome(ESP_OK, flash,
          [i \in 1 .. Len(bufMem) |->
             IF i <= op.size THEN flash[op.partition][op.part_off + i - 1]
             ELSE bufMem[i]])} \cup DevFails

esp_partition_write(op) ==
  IF op.partition \notin Partitions THEN {DevTrap}
  ELSE IF ~InRange(op) THEN {DevOutcome(ESP_ERR_INVALID_ARG, flash, bufMem)}
  ELSE IF ~BufUsable(op) THEN BadBuffer(op)
  ELSE {DevOutcome(ESP_OK,
          [flash EXCEPT ![op.partition] =
             [a \in 0 .. (DevSize - 1) |->
                IF a >= op.part_off /\ a < op.part_off + op.size
                THEN bufMem[a - op.part_off + 1] ELSE @[a]]],
          bufMem)} \cup DevFails

esp_partition_erase_range(op) ==
  IF op.partition \notin Partitions THEN {DevTrap}
  ELSE IF ~InRange(op) THEN {DevOutcome(ESP_ERR_INVALID_ARG, flash, bufMem)}
  ELSE {DevOutcome(ESP_OK,
          [flash EXCEPT ![op.partition] =
             [a \in 0 .. (DevSize - 1) |->
                IF a >= op.part_off /\ a < op.part_off + op.size
                THEN ErasedByte ELSE @[a]]],
          bufMem)} \cup DevFails

\* --------------------------------------------------------- flash_proxy_task
\* flash_proxy_task_wake going back to the give without the device call.
flash_proxy_task_wake_SkipDispatch(t) ==
  /\ ~panicked
  /\ taskPc[t] = "wait"
  /\ notifyVal[t] > 0
  /\ notifyVal' = [notifyVal EXCEPT ![t] = 0]
  /\ flash_op_result' = 0
  /\ taskPc' = [taskPc EXCEPT ![t] = "give"]
  /\ UNCHANGED <<startVars, current_flash_op, bufVars, semCount, semsCreated,
                 tasksCreated, taskErr, flash, pc, call, panicked, ncalls, efs, hist>>

\* flash_proxy_task_wake giving the semaphore before the device call.
flash_proxy_task_wake_GivesEarly(t) ==
  /\ ~panicked
  /\ taskPc[t] = "wait"
  /\ notifyVal[t] > 0
  /\ notifyVal' = [notifyVal EXCEPT ![t] = 0]
  /\ flash_op_result' = 0
  /\ taskPc' = [taskPc EXCEPT ![t] = "dispatch"]
  /\ semCount' = IF operation_done_sem = NULL THEN semCount
                 ELSE [semCount EXCEPT ![operation_done_sem] = 1]
  /\ UNCHANGED <<startVars, current_flash_op, bufVars, semsCreated,
                 tasksCreated, taskErr, flash, pc, call, panicked, ncalls, efs, hist>>

\* flash_proxy_task_wake without line 96, the reset of the result.
flash_proxy_task_wake_NoReset(t) ==
  /\ ~panicked
  /\ taskPc[t] = "wait"
  /\ notifyVal[t] > 0
  /\ notifyVal' = [notifyVal EXCEPT ![t] = 0]
  /\ taskPc' = [taskPc EXCEPT ![t] = "dispatch"]
  /\ UNCHANGED <<startVars, current_flash_op, flash_op_result, bufVars, semCount,
                 semsCreated, tasksCreated, taskErr, flash, pc, call, panicked, ncalls,
                 efs, hist>>

\* Lines 94-96: ulTaskNotifyTake(pdTRUE, portMAX_DELAY) blocks until the
\* notification value is non-zero and clears it; then the result is reset.
flash_proxy_task_wake(t) ==
  /\ ~panicked
  /\ taskPc[t] = "wait"
  /\ notifyVal[t] > 0
  /\ notifyVal' = [notifyVal EXCEPT ![t] = 0]
  /\ flash_op_result' = 0
  /\ taskPc' = [taskPc EXCEPT ![t] = "dispatch"]
  /\ UNCHANGED <<startVars, current_flash_op, bufVars, semCount, semsCreated,
                 tasksCreated, taskErr, flash, pc, call, panicked, ncalls, efs, hist>>

\* Lines 98-121: the device call the request's type selects.
Dispatch(op) ==
  CASE op.type = FLASH_OP_READ -> esp_partition_read(op)
    [] op.type = FLASH_OP_WRITE -> esp_partition_write(op)
    [] op.type = FLASH_OP_ERASE -> esp_partition_erase_range(op)
    [] OTHER -> {DevOutcome(ESP_ERR_INVALID_ARG, flash, bufMem)}

IsDeviceKind(k) == k \in {FLASH_OP_READ, FLASH_OP_WRITE, FLASH_OP_ERASE}

\* ResultOf storing the device status itself.
ResultOf_PassesStatus(err, result) == IF err # ESP_OK THEN err ELSE result

\* Lines 122-125: any non-zero err becomes LFS_ERR_IO.
ResultOf(err, result) == IF err # ESP_OK THEN LFS_ERR_IO ELSE result

\* Lines 98-125.
flash_proxy_task_dispatch(t) ==
  /\ ~panicked
  /\ taskPc[t] = "dispatch"
  /\ \E o \in Dispatch(current_flash_op) :
       LET made == IsDeviceKind(current_flash_op.type)
           own == hist.owner
       IN
       /\ panicked' = o.trap
       /\ flash' = o.flash
       /\ bufMem' = o.mem
       /\ taskErr' = [taskErr EXCEPT ![t] = o.err]
       /\ flash_op_result' = IF o.trap THEN flash_op_result
                             ELSE ResultOf(o.err, flash_op_result)
       /\ taskPc' = [taskPc EXCEPT ![t] = "give"]
       /\ call' = IF made /\ own \in Callers /\ call[own].op \in FsOps
                  THEN [call EXCEPT ![own].served = @ + 1] ELSE call
       /\ hist' = [hist EXCEPT
            !.devCalls = IF made THEN @ + 1 ELSE @,
            !.lastDev = IF made
                        THEN [kind |-> current_flash_op.type,
                              partition |-> current_flash_op.partition,
                              off |-> current_flash_op.part_off,
                              buffer |-> current_flash_op.buffer,
                              size |-> current_flash_op.size]
                        ELSE @,
            !.servedOwner = own,
            !.prevFailed = (taskErr[t] # ESP_OK)]
  /\ UNCHANGED <<startVars, current_flash_op, flash_proxy_buf, flash_proxy_buf_size,
                 semCount, semsCreated, tasksCreated, notifyVal, pc, ncalls, efs>>

\* Line 126: xSemaphoreGive(operation_done_sem). Giving a NULL handle fails
\* configASSERT; giving a semaphore that is already full changes nothing.
flash_proxy_task_give(t) ==
  /\ ~panicked
  /\ taskPc[t] = "give"
  /\ IF operation_done_sem = NULL
     THEN /\ panicked' = TRUE
          /\ UNCHANGED <<semCount, taskPc>>
     ELSE /\ semCount' = [semCount EXCEPT ![operation_done_sem] = 1]
          /\ taskPc' = [taskPc EXCEPT ![t] = "wait"]
          /\ UNCHANGED panicked
  /\ UNCHANGED <<startVars, current_flash_op, flash_op_result, bufVars, semsCreated,
                 tasksCreated, notifyVal, taskErr, flash, pc, call, ncalls, efs, hist>>

\* ---------------------------------------------- ensure_flash_proxy_buf_size
\* heap_caps_malloc / heap_caps_realloc: NULL when the heap cannot satisfy the
\* request (a failed realloc leaves the old block allocated, and the only
\* pointer to it is overwritten), else a block of size bytes whose new bytes
\* are indeterminate. malloc places the block at the first address; realloc
\* keeps the old bytes and grows the block in place or moves it.
AllocFailed == [buf |-> NULL, mem |-> <<>>]

FirstAddr == CHOOSE a \in Addrs : \A b \in Addrs : a <= b

heap_caps_malloc(size) ==
  {AllocFailed, [buf |-> FirstAddr, mem |-> [i \in 1 .. size |-> Uninit]]}

heap_caps_realloc(old, size) ==
  {AllocFailed}
    \cup {[buf |-> a,
           mem |-> [i \in 1 .. size |-> IF i <= Len(old) THEN old[i] ELSE Uninit]] :
          a \in Addrs}

\* ensure_flash_proxy_buf_size reallocating to the requested size whenever it
\* differs from the recorded one.
ensure_flash_proxy_buf_size_Exact(size) ==
  IF flash_proxy_buf = NULL
  THEN {[buf |-> r.buf, size |-> size, mem |-> r.mem] : r \in heap_caps_malloc(size)}
  ELSE IF flash_proxy_buf_size # size
  THEN {[buf |-> r.buf, size |-> size, mem |-> r.mem] :
          r \in heap_caps_realloc(bufMem, size)}
  ELSE {[buf |-> flash_proxy_buf, size |-> flash_proxy_buf_size, mem |-> bufMem]}

\* Lines 130-140: the outcomes [buf, size, mem] of ensure_flash_proxy_buf_size.
ensure_flash_proxy_buf_size(size) ==
  IF flash_proxy_buf = NULL
  THEN {[buf |-> r.buf, size |-> size, mem |-> r.mem] : r \in heap_caps_malloc(size)}
  ELSE IF flash_proxy_buf_size < size
  THEN {[buf |-> r.buf, size |-> size, mem |-> r.mem] :
          r \in heap_caps_realloc(bufMem, size)}
  ELSE {[buf |-> flash_proxy_buf, size |-> flash_proxy_buf_size, mem |-> bufMem]}

\* ------------------------------------------------------------- addressing
\* PartOff with the product formed in a type too narrow for the device.
PartOff_Narrow(block, block_size, off) ==
  (((block * block_size) % block_size) + off) % WordModulus

\* Lines 145, 168: (block * c->block_size) + off, in unsigned arithmetic of
\* the machine word.
PartOff(block, block_size, off) ==
  (((block * block_size) % WordModulus) + off) % WordModulus

\* Line 189: block * c->block_size.
ErasePartOff(block, block_size) == (block * block_size) % WordModulus

\* The (off, size) pairs the filesystem engine passes: at least one byte, inside
\* one block.
Spans == {s \in (0 .. BlockSize) \X (1 .. BlockSize) : s[1] + s[2] <= BlockSize}

\* NotStarted with the early return reporting success.
NotStarted_ReturnsZero(c, args) ==
  /\ call' = [call EXCEPT ![c] = [args EXCEPT !.ret = 0]]
  /\ pc' = [pc EXCEPT ![c] = "returned"]
  /\ hist' = [hist EXCEPT !.overlapped = @ \/ Overlaps(c)]
  /\ UNCHANGED <<startVars, current_flash_op, flash_op_result, bufVars, rtosVars,
                 flash, panicked>>

\* Lines 146-149, 169-172, 190-193: the executor was never started.
NotStarted(c, args) ==
  /\ call' = [call EXCEPT ![c] = [args EXCEPT !.ret = LFS_ERR_IO]]
  /\ pc' = [pc EXCEPT ![c] = "returned"]
  /\ hist' = [hist EXCEPT !.overlapped = @ \/ Overlaps(c)]
  /\ UNCHANGED <<startVars, current_flash_op, flash_op_result, bufVars, rtosVars,
                 flash, panicked>>

\* Lines 150, 173: the call to ensure_flash_proxy_buf_size.
Ensure(c, args, next) ==
  /\ \E e \in ensure_flash_proxy_buf_size(args.size) :
       /\ flash_proxy_buf' = e.buf
       /\ flash_proxy_buf_size' = e.size
       /\ bufMem' = e.mem
       /\ call' = [call EXCEPT ![c] =
                     [args EXCEPT !.started = TRUE,
                                  !.allocFailed = (e.buf = NULL /\ args.size > 0)]]
  /\ pc' = [pc EXCEPT ![c] = next]
  /\ hist' = [hist EXCEPT !.overlapped = @ \/ Overlaps(c),
                          !.maxReq = Max(@, args.size),
                          !.grown = @ \/ (flash_proxy_buf # NULL
                                            /\ flash_proxy_buf_size < args.size),
                          !.lastProg.valid = @ /\ args.op = "read"]
  /\ UNCHANGED <<startVars, current_flash_op, flash_op_result, rtosVars, flash,
                 panicked>>

\* -------------------------------------------------------- littlefs_api_read
\* Lines 142-150.
littlefs_api_read(c, lim) ==
  /\ Enter(c, lim)
  /\ \E b \in lim.blocks, s \in lim.spans :
       LET args == [NoCall EXCEPT !.op = "read", !.partition = efs.partition,
                                  !.block_size = BlockSize, !.block = b,
                                  !.off = s[1], !.size = s[2],
                                  !.part_off = PartOff(b, BlockSize, s[1])]
       IN IF flash_proxy_task_handle = NULL
          THEN NotStarted(c, args)
          ELSE Ensure(c, args, "compose")

\* littlefs_api_read_compose keeping the buffer pointer already in the slot.
littlefs_api_read_compose_KeepsBuffer(c) ==
  /\ ~panicked
  /\ pc[c] = "compose"
  /\ call[c].op = "read"
  /\ current_flash_op' = [type |-> FLASH_OP_READ, partition |-> call[c].partition,
                          part_off |-> call[c].part_off,
                          buffer |-> current_flash_op.buffer,
                          size |-> call[c].size]
  /\ pc' = [pc EXCEPT ![c] = "notify"]
  /\ hist' = [hist EXCEPT !.owner = c]
  /\ UNCHANGED <<startVars, flash_op_result, bufVars, rtosVars, flash, call,
                 panicked, ncalls, efs>>

\* Lines 152-156.
littlefs_api_read_compose(c) ==
  /\ ~panicked
  /\ pc[c] = "compose"
  /\ call[c].op = "read"
  /\ current_flash_op' = [type |-> FLASH_OP_READ, partition |-> call[c].partition,
                          part_off |-> call[c].part_off, buffer |-> flash_proxy_buf,
                          size |-> call[c].size]
  /\ pc' = [pc EXCEPT ![c] = "notify"]
  /\ hist' = [hist EXCEPT !.owner = c]
  /\ UNCHANGED <<startVars, flash_op_result, bufVars, rtosVars, flash, call,
                 panicked, ncalls, efs>>

\* Line 160: memcpy(buffer, flash_proxy_buf, size), then line 162. Bytes read
\* past the end of the block are indeterminate; a NULL source traps.
CopyOut(size) ==
  [i \in 1 .. size |-> IF i <= Len(bufMem) THEN bufMem[i] ELSE Uninit]

littlefs_api_read_copyout(c) ==
  /\ ~panicked
  /\ pc[c] = "copyout"
  /\ IF call[c].size > 0 /\ flash_proxy_buf = NULL
     THEN /\ panicked' = TRUE
          /\ UNCHANGED <<pc, call>>
     ELSE /\ call' = [call EXCEPT ![c].out = CopyOut(call[c].size), ![c].ret = 0]
          /\ pc' = [pc EXCEPT ![c] = "returned"]
          /\ UNCHANGED panicked
  /\ UNCHANGED <<startVars, current_flash_op, flash_op_result, bufVars, rtosVars,
                 flash, ncalls, efs, hist>>

\* -------------------------------------------------------- littlefs_api_prog
\* Lines 165-173.
littlefs_api_prog(c, lim) ==
  /\ Enter(c, lim)
  /\ \E b \in lim.blocks, s \in lim.spans :
       \E d \in SeqsOf(Bytes, s[2]) :
         LET args == [NoCall EXCEPT !.op = "prog", !.partition = efs.partition,
                                    !.block_size = BlockSize, !.block = b,
                                    !.off = s[1], !.size = s[2], !.data = d,
                                    !.part_off = PartOff(b, BlockSize, s[1])]
         IN IF flash_proxy_task_handle = NULL
            THEN NotStarted(c, args)
            ELSE Ensure(c, args, "stage")

\* Stage with the copy left out.
Stage_NoCopy(mem, data, size) == mem

\* Line 174: memcpy(flash_proxy_buf, buffer, size).
Stage(mem, data, size) ==
  [i \in 1 .. Len(mem) |-> IF i <= size THEN data[i] ELSE mem[i]]

\* Line 174. A NULL destination traps; a block shorter than size is overrun,
\* which corrupts the heap: it is caught (panic) or goes unseen.
littlefs_api_prog_stage(c) ==
  /\ ~panicked
  /\ pc[c] = "stage"
  /\ \/ /\ call[c].size = 0 \/ flash_proxy_buf # NULL
        /\ bufMem' = Stage(bufMem, call[c].data, call[c].size)
        /\ pc' = [pc EXCEPT ![c] = "compose"]
        /\ UNCHANGED panicked
     \/ /\ call[c].size > 0
        /\ flash_proxy_buf = NULL \/ call[c].size > Len(bufMem)
        /\ panicked' = TRUE
        /\ UNCHANGED <<bufMem, pc>>
  /\ UNCHANGED <<startVars, current_flash_op, flash_op_result, flash_proxy_buf,
                 flash_proxy_buf_size, rtosVars, flash, call, ncalls, efs, hist>>

\* Lines 175-179.
littlefs_api_prog_compose(c) ==
  /\ ~panicked
  /\ pc[c] = "compose"
  /\ call[c].op = "prog"
  /\ current_flash_op' = [type |-> FLASH_OP_WRITE, partition |-> call[c].partition,
                          part_off |-> call[c].part_off, buffer |-> flash_proxy_buf,
                          size |-> call[c].size]
  /\ pc' = [pc EXCEPT ![c] = "notify"]
  /\ hist' = [hist EXCEPT !.owner = c]
  /\ UNCHANGED <<startVars, flash_op_result, bufVars, rtosVars, flash, call,
                 panicked, ncalls, efs>>

\* ------------------------------------------------------- littlefs_api_erase
\* Lines 187-193 and 194-198: erase allocates nothing, so the request is
\* composed as soon as the handle test has passed.
littlefs_api_erase(c, lim) ==
  /\ Enter(c, lim)
  /\ \E b \in lim.blocks :
       LET args == [NoCall EXCEPT !.op = "erase", !.partition = efs.partition,
                                  !.block_size = BlockSize, !.block = b,
                                  !.part_off = ErasePartOff(b, BlockSize)]
       IN IF flash_proxy_task_handle = NULL
          THEN NotStarted(c, args)
          ELSE /\ call' = [call EXCEPT ![c] = [args EXCEPT !.started = TRUE]]
               /\ pc' = [pc EXCEPT ![c] = "compose"]
               /\ hist' = [hist EXCEPT !.overlapped = @ \/ Overlaps(c),
                                       !.lastProg.valid = FALSE]
               /\ UNCHANGED <<startVars, current_flash_op, flash_op_result, bufVars,
                              rtosVars, flash, panicked>>

\* littlefs_api_erase_compose leaving the buffer and the size of the slot as the
\* previous request set them.
littlefs_api_erase_compose_KeepsBuffer(c) ==
  /\ ~panicked
  /\ pc[c] = "compose"
  /\ call[c].op = "erase"
  /\ current_flash_op' = [current_flash_op EXCEPT
                            !.type = FLASH_OP_ERASE,
                            !.partition = call[c].partition,
                            !.part_off = call[c].part_off]
  /\ pc' = [pc EXCEPT ![c] = "notify"]
  /\ hist' = [hist EXCEPT !.owner = c]
  /\ UNCHANGED <<startVars, flash_op_result, bufVars, rtosVars, flash, call,
                 panicked, ncalls, efs>>

\* Lines 194-198.
littlefs_api_erase_compose(c) ==
  /\ ~panicked
  /\ pc[c] = "compose"
  /\ call[c].op = "erase"
  /\ current_flash_op' = [type |-> FLASH_OP_ERASE, partition |-> call[c].partition,
                          part_off |-> call[c].part_off, buffer |-> NULL,
                          size |-> call[c].block_size]
  /\ pc' = [pc EXCEPT ![c] = "notify"]
  /\ hist' = [hist EXCEPT !.owner = c]
  /\ UNCHANGED <<startVars, flash_op_result, bufVars, rtosVars, flash, call,
                 panicked, ncalls, efs>>

\* ------------------------------------------------- the hand-off, all three
\* Lines 157, 181, 199: xTaskNotifyGive(flash_proxy_task_handle) increments the
\* notification value of the task the handle names; a NULL handle fails
\* configASSERT.
api_notify(c) ==
  /\ ~panicked
  /\ pc[c] = "notify"
  /\ IF flash_proxy_task_handle = NULL
     THEN /\ panicked' = TRUE
          /\ UNCHANGED <<notifyVal, pc, hist>>
     ELSE /\ notifyVal' = [notifyVal EXCEPT ![flash_proxy_task_handle] = @ + 1]
          /\ pc' = [pc EXCEPT ![c] = "take"]
          /\ hist' = [hist EXCEPT !.wakes = @ + 1]
          /\ UNCHANGED panicked
  /\ UNCHANGED <<startVars, current_flash_op, flash_op_result, bufVars, semCount,
                 semsCreated, tasksCreated, taskPc, taskErr, flash, call, ncalls, efs>>

\* api_take as a take that does not block: the caller goes on at once.
api_take_ReturnsAtOnce(c) ==
  /\ ~panicked
  /\ pc[c] = "take"
  /\ IF call[c].op = "read"
     THEN /\ pc' = [pc EXCEPT ![c] = "copyout"]
          /\ UNCHANGED call
     ELSE /\ pc' = [pc EXCEPT ![c] = "returned"]
          /\ call' = [call EXCEPT ![c].ret = 0]
  /\ UNCHANGED <<startVars, current_flash_op, flash_op_result, bufVars, rtosVars,
                 flash, panicked, ncalls, efs, hist>>

\* Lines 158, 182, 200: the call of xSemaphoreTake(operation_done_sem,
\* portMAX_DELAY) reads the handle; a NULL handle fails configASSERT.
api_take(c) ==
  /\ ~panicked
  /\ pc[c] = "take"
  /\ IF operation_done_sem = NULL
     THEN /\ panicked' = TRUE
          /\ UNCHANGED <<pc, call>>
     ELSE /\ call' = [call EXCEPT ![c].sem = operation_done_sem]
          /\ pc' = [pc EXCEPT ![c] = "blocked"]
          /\ UNCHANGED panicked
  /\ UNCHANGED <<startVars, current_flash_op, flash_op_result, bufVars, rtosVars,
                 flash, ncalls, efs, hist>>

\* api_taken leaving the semaphore full.
api_taken_LeavesSignal(c) ==
  /\ ~panicked
  /\ pc[c] = "blocked"
  /\ semCount[call[c].sem] = 1
  /\ IF call[c].op = "read"
     THEN /\ pc' = [pc EXCEPT ![c] = "copyout"]
          /\ UNCHANGED call
     ELSE /\ pc' = [pc EXCEPT ![c] = "returned"]
          /\ call' = [call EXCEPT ![c].ret = 0]
  /\ UNCHANGED <<startVars, current_flash_op, flash_op_result, bufVars, rtosVars,
                 flash, panicked, ncalls, efs, hist>>

\* api_taken returning from the take whether or not the semaphore was given.
api_taken_NoWait(c) ==
  /\ ~panicked
  /\ pc[c] = "blocked"
  /\ semCount' = [semCount EXCEPT ![call[c].sem] = 0]
  /\ IF call[c].op = "read"
     THEN /\ pc' = [pc EXCEPT ![c] = "copyout"]
          /\ UNCHANGED call
     ELSE /\ pc' = [pc EXCEPT ![c] = "returned"]
          /\ call' = [call EXCEPT ![c].ret = 0]
  /\ UNCHANGED <<startVars, current_flash_op, flash_op_result, bufVars, semsCreated,
                 tasksCreated, taskPc, notifyVal, taskErr, flash, panicked, ncalls, efs,
                 hist>>

\* Lines 158-160, 182-184, 200-202: the take returns once the semaphore is
\* given and empties it; prog and erase then return 0, read copies out first.
api_taken(c) ==
  /\ ~panicked
  /\ pc[c] = "blocked"
  /\ semCount[call[c].sem] = 1
  /\ semCount' = [semCount EXCEPT ![call[c].sem] = 0]
  /\ IF call[c].op = "read"
     THEN /\ pc' = [pc EXCEPT ![c] = "copyout"]
          /\ UNCHANGED call
     ELSE /\ pc' = [pc EXCEPT ![c] = "returned"]
          /\ call' = [call EXCEPT ![c].ret = 0]
  /\ hist' = IF call[c].op = "prog"
             THEN [hist EXCEPT !.lastProg =
                     [valid |-> TRUE, partition |-> call[c].partition,
                      block |-> call[c].block, off |-> call[c].off,
                      size |-> call[c].size, data |-> call[c].data, ret |-> 0,
                      err |-> taskErr[flash_proxy_task_handle]]]
             ELSE hist
  /\ UNCHANGED <<startVars, current_flash_op, flash_op_result, bufVars, semsCreated,
                 tasksCreated, taskPc, notifyVal, taskErr, flash, panicked, ncalls, efs>>

\* -------------------------------------------------------- littlefs_api_sync
\* littlefs_api_sync clearing the type of the request slot.
littlefs_api_sync_ClearsSlot(c, lim) ==
  /\ Enter(c, lim)
  /\ call' = [call EXCEPT ![c] = [NoCall EXCEPT !.op = "sync", !.ret = 0]]
  /\ pc' = [pc EXCEPT ![c] = "returned"]
  /\ hist' = [hist EXCEPT !.overlapped = @ \/ Overlaps(c)]
  /\ current_flash_op' = [current_flash_op EXCEPT !.type = FLASH_OP_NONE]
  /\ UNCHANGED <<startVars, flash_op_result, bufVars, rtosVars, flash, panicked>>

\* Lines 205-208.
littlefs_api_sync(c, lim) ==
  /\ Enter(c, lim)
  /\ call' = [call EXCEPT ![c] = [NoCall EXCEPT !.op = "sync", !.ret = 0]]
  /\ pc' = [pc EXCEPT ![c] = "returned"]
  /\ hist' = [hist EXCEPT !.overlapped = @ \/ Overlaps(c)]
  /\ UNCHANGED <<startVars, current_flash_op, flash_op_result, bufVars, rtosVars,
                 flash, panicked>>

\* ------------------------------------------------------------ specifications
CallerStep(c, lim) ==
  \/ start_flash_proxy_task(c, lim)
  \/ start_create_sem(c)
  \/ start_create_task(c)
  \/ littlefs_api_read(c, lim)
  \/ littlefs_api_read_compose(c)
  \/ littlefs_api_read_copyout(c)
  \/ littlefs_api_prog(c, lim)
  \/ littlefs_api_prog_stage(c)
  \/ littlefs_api_prog_compose(c)
  \/ littlefs_api_erase(c, lim)
  \/ littlefs_api_erase_compose(c)
  \/ api_notify(c)
  \/ api_take(c)
  \/ api_taken(c)
  \/ littlefs_api_sync(c, lim)
  \/ Return(c)

TaskStep(t) ==
  \/ flash_proxy_task_wake(t)
  \/ flash_proxy_task_dispatch(t)
  \/ flash_proxy_task_give(t)

\* One caller at a time: the usage the protocol is written for.
Next ==
  \/ \E c \in {1} : CallerStep(c, Lim(MaxCalls, Blocks, Spans))
  \/ \E t \in TaskIds : TaskStep(t)

Spec == Init /\ [][Next]_vars

\* Caller tasks that enter the entry points without excluding one another; their
\* requests start at the beginning of block 0.
NextConcurrent ==
  \/ \E c \in Callers :
       CallerStep(c, Lim(MaxCallsConcurrent, {0}, {s \in Spans : s[1] = 0}))
  \/ \E t \in TaskIds : TaskStep(t)

SpecConcurrent == Init /\ [][NextConcurrent]_vars

\* The steps of a call in progress: a caller that has entered an entry point
\* keeps running, and so does every created proxy task (FreeRTOS schedules
\* every ready task of the system; nothing is suspended or deleted).
InCall(c) ==
  \/ start_create_sem(c)
  \/ start_create_task(c)
  \/ littlefs_api_read_compose(c)
  \/ littlefs_api_read_copyout(c)
  \/ littlefs_api_prog_stage(c)
  \/ littlefs_api_prog_compose(c)
  \/ littlefs_api_erase_compose(c)
  \/ api_notify(c)
  \/ api_take(c)
  \/ api_taken(c)

NextLive ==
  \/ \E c \in {1} : CallerStep(c, Lim(MaxCallsLive, Blocks, Spans))
  \/ \E t \in TaskIds : TaskStep(t)

FairSpec ==
  /\ Init
  /\ [][NextLive]_vars
  /\ WF_vars(InCall(1))
  /\ \A t \in TaskIds : WF_vars(TaskStep(t))

\* Block indices as the filesystem engine may pass them: those of the device,
\* and indices so large that the product with the block size leaves the word.
ProbeBlocks ==
  Blocks \cup {WordModulus \div BlockSize, (WordModulus \div BlockSize) + 1}

\* One caller, block indices of any size.
NextOffsets ==
  \/ \E c \in {1} : CallerStep(c, Lim(MaxCallsOffsets, ProbeBlocks, Spans))
  \/ \E t \in TaskIds : TaskStep(t)

SpecOffsets == Init /\ [][NextOffsets]_vars

\* The proxy task taken by itself, as a function of the request slot: it has
\* been started, a scratch buffer is in place, the slot holds any request of any
\* type and the task has been notified.
RequestSlots ==
  [type : {FLASH_OP_NONE, FLASH_OP_READ, FLASH_OP_WRITE, FLASH_OP_ERASE,
           FLASH_OP_INVALID},
   partition : Partitions,
   part_off : 0 .. DevSize,
   buffer : {NULL, FirstAddr},
   size : 0 .. BlockSize]

InitExecutor ==
  /\ operation_done_sem = 1
  /\ flash_proxy_task_handle = 1
  /\ current_flash_op \in RequestSlots
  /\ flash_op_result \in {0, LFS_ERR_IO}
  /\ flash_proxy_buf = FirstAddr
  /\ flash_proxy_buf_size = BlockSize
  /\ bufMem \in SeqsOf(Bytes, BlockSize)
  /\ semCount = [s \in SemIds |-> 0]
  /\ semsCreated = 1
  /\ tasksCreated = 1
  /\ taskPc = [t \in TaskIds |-> IF t = 1 THEN "wait" ELSE "absent"]
  /\ notifyVal = [t \in TaskIds |-> IF t = 1 THEN 1 ELSE 0]
  /\ taskErr = [t \in TaskIds |-> ESP_OK]
  /\ flash = [p \in Partitions |-> [a \in 0 .. (DevSize - 1) |-> ErasedByte]]
  /\ pc = [c \in Callers |-> "idle"]
  /\ call = [c \in Callers |-> NoCall]
  /\ panicked = FALSE
  /\ ncalls = 0
  /\ efs \in [partition : Partitions]
  /\ hist = [wakes |-> 1, devCalls |-> 0, lastDev |-> NoDev, owner |-> 0,
             servedOwner |-> 0, overlapped |-> FALSE, maxReq |-> BlockSize,
             grown |-> FALSE, lastProg |-> NoProg, prevFailed |-> FALSE]

NextExecutor == \E t \in TaskIds : TaskStep(t)

SpecExecutor == InitExecutor /\ [][NextExecutor]_vars

\* ------------------------------------------------------------------ claims
Handle == flash_proxy_task_handle

\* The call of caller c is a read, prog or erase that passed the handle test
\* and has returned.
Completed(c) == pc[c] = "returned" /\ call[c].op \in FsOps /\ call[c].started

\* C1: a read, prog or erase that ran with the executor started returns the
\* Outcome the executor recorded for its request: LFS_ERR_IO when the device
\* call failed, 0 only when it succeeded.
C1_ReturnIsOutcome ==
  \A c \in Callers : Completed(c) => call[c].ret = flash_op_result

\* The read of caller c covers exactly the range of the last completed prog, no
\* prog or erase came in between, and both device calls succeeded.
ReadsBackLastProg(c) ==
  /\ Completed(c)
  /\ call[c].op = "read"
  /\ hist.lastProg.valid
  /\ hist.lastProg.partition = call[c].partition
  /\ hist.lastProg.block = call[c].block
  /\ hist.lastProg.off = call[c].off
  /\ hist.lastProg.size = call[c].size
  /\ hist.lastProg.err = ESP_OK
  /\ taskErr[Handle] = ESP_OK

\* C2: round trip. With one caller and device calls that succeed, a read over
\* the range of the preceding prog returns the programmed bytes, and both calls
\* return 0, whatever calls came before.
C2_RoundTrip ==
  \A c \in Callers :
    ReadsBackLastProg(c) =>
      /\ call[c].out = hist.lastProg.data
      /\ call[c].ret = 0
      /\ hist.lastProg.ret = 0

\* A full block read back after the scratch buffer was reallocated.
C2_Witness ==
  \E c \in Callers :
    /\ ReadsBackLastProg(c)
    /\ hist.grown
    /\ call[c].size = BlockSize
    /\ call[c].out[1] = "AA"
    /\ call[c].out[BlockSize] = "FF"

\* C3: a read, prog or erase entered while the handle is NULL returns
\* LFS_ERR_IO in that step: no wake, no wait, no device call, and the Request,
\* the Outcome and the scratch buffer are left as they were.
C3_NotStartedFailsAtOnce ==
  [][\A c \in Callers :
       (pc[c] = "idle" /\ pc'[c] # "idle" /\ call'[c].op \in FsOps /\ Handle = NULL)
       => /\ pc'[c] = "returned"
          /\ call'[c].ret = LFS_ERR_IO
          /\ hist'.wakes = hist.wakes
          /\ hist'.devCalls = hist.devCalls
          /\ UNCHANGED <<current_flash_op, flash_op_result, flash_proxy_buf,
                         flash_proxy_buf_size, bufMem, notifyVal, semCount, flash>>]_vars

\* An entry point has returned the error with the handle still NULL.
C3_Witness ==
  \E c \in Callers :
    /\ pc[c] = "returned"
    /\ call[c].op \in FsOps
    /\ ~call[c].started
    /\ call[c].ret = LFS_ERR_IO
    /\ Handle = NULL

\* The call of caller c is a read, prog or erase in progress, entered after a
\* start that created both the proxy task and the semaphore.
InProgress(c) ==
  /\ pc[c] \notin {"idle", "returned"}
  /\ call[c].op \in FsOps
  /\ Handle # NULL
  /\ operation_done_sem # NULL

\* C4: liveness. With the executor started, one caller at a time and device
\* calls that terminate, every read, prog or erase eventually returns, under
\* weak fairness of the proxy task and of the caller's own steps.
C4_EveryCallReturns ==
  \A c \in Callers : InProgress(c) ~> (pc[c] = "returned")

\* The hand-off itself loses no wake: a call whose scratch buffer was provided
\* returns.
HandOffReturns ==
  \A c \in Callers :
    (InProgress(c) /\ ~call[c].allocFailed) ~> (pc[c] = "returned")

\* The request type the entry point of a call composes (lines 152, 175, 194).
KindOf(op) ==
  CASE op = "read" -> FLASH_OP_READ
    [] op = "prog" -> FLASH_OP_WRITE
    [] op = "erase" -> FLASH_OP_ERASE
    [] OTHER -> FLASH_OP_NONE

\* The length the entry point of a call composes (lines 156, 179, 198).
LengthOf(c) == IF call[c].op = "erase" THEN call[c].block_size ELSE call[c].size

\* The semaphore of caller c's request was given and taken: the call is past
\* its wait.
PastWait(c) ==
  /\ call[c].op \in FsOps
  /\ call[c].started
  /\ pc[c] \in {"copyout", "returned"}

\* The last device call is the one composed for the call of caller c.
LastDevIsOwn(c) ==
  /\ hist.lastDev.kind = KindOf(call[c].op)
  /\ hist.lastDev.partition = call[c].partition
  /\ hist.lastDev.off = call[c].part_off
  /\ hist.lastDev.size = LengthOf(c)

\* C5: with one caller at a time, every wake is answered by exactly one device
\* call: device calls never outnumber wakes nor lag more than the one wake
\* being served, and when a call is past its wait exactly one device call was
\* made for it, of the kind, device, offset and length composed for it, and
\* the device calls made equal the wakes emitted.
C5_OneDeviceCallPerWake ==
  /\ hist.devCalls <= hist.wakes
  /\ hist.wakes <= hist.devCalls + 1
  /\ \A c \in Callers :
       PastWait(c) =>
         /\ call[c].served = 1
         /\ hist.devCalls = hist.wakes
         /\ LastDevIsOwn(c)

\* A second request, an erase, has returned after its one device call.
C5_Witness ==
  \E c \in Callers :
    /\ PastWait(c)
    /\ call[c].op = "erase"
    /\ call[c].block = 1
    /\ hist.wakes = 2
    /\ hist.devCalls = 2

\* Caller c has emitted its wake and not yet seen its completion signal.
InFlight(c) == call[c].op \in FsOps /\ pc[c] \in {"take", "blocked"}

\* Caller d takes a step that writes the request slot or the scratch buffer.
WritesShared(d) ==
  /\ pc'[d] # pc[d]
  /\ <<current_flash_op, flash_proxy_buf, flash_proxy_buf_size, bufMem>>' #
       <<current_flash_op, flash_proxy_buf, flash_proxy_buf_size, bufMem>>

\* Caller c comes back from its wait on the completion signal.
Consumes(c) == pc[c] = "blocked" /\ pc'[c] # "blocked"

\* C6: for any number of caller tasks, no entry point writes the request slot
\* or the scratch buffer while another call is between its wake and its
\* completion signal, at most one call is in that window, and a completion
\* signal is consumed by the caller whose request the executor just executed.
C6_OneRequestInFlight ==
  [][\A c \in Callers :
       /\ InFlight(c) => \A d \in Callers \ {c} : ~WritesShared(d) /\ ~InFlight(d)
       /\ Consumes(c) => hist.servedOwner = c]_vars

\* The proxy task the handle names is parked in its wait with no wake pending
\* and the completion semaphore is empty.
ExecutorIdle ==
  /\ Handle # NULL
  /\ taskPc[Handle] = "wait"
  /\ notifyVal[Handle] = 0
  /\ operation_done_sem # NULL => semCount[operation_done_sem] = 0

\* Caller c composes its request.
Composes(c) == pc[c] \in {"compose"} /\ pc'[c] = "notify"

\* C6, amended: as long as no caller has entered an entry point while another
\* call was outstanding, at most one request is in flight: a request is
\* composed only with the executor idle, no other call is inside its window,
\* and a completion signal is consumed by the caller whose request the
\* executor just executed.
C6_OneRequestInFlightWhenSerialised ==
  [][~hist'.overlapped =>
       \A c \in Callers :
         /\ Composes(c) => ExecutorIdle
         /\ InFlight(c) => \A d \in Callers \ {c} : ~WritesShared(d) /\ ~InFlight(d)
         /\ Consumes(c) => hist.servedOwner = c]_vars

\* Two callers have each completed a request, one after the other.
C6_Witness ==
  /\ ~hist.overlapped
  /\ Completed(1)
  /\ Completed(2)
  /\ hist.servedOwner = 2
  /\ hist.devCalls = 2

\* C7: a read or prog whose scratch buffer could not be allocated fails with
\* LFS_ERR_IO: it emits no wake, the system keeps running, and no read or write
\* of the device is made with a NULL buffer.
C7_AllocFailureIsIOError ==
  /\ \A c \in Callers :
       call[c].allocFailed =>
         /\ ~panicked
         /\ pc[c] \notin {"notify", "take", "blocked", "copyout"}
         /\ pc[c] = "returned" => call[c].ret = LFS_ERR_IO
  /\ (hist.lastDev.kind \in {FLASH_OP_READ, FLASH_OP_WRITE} /\ hist.lastDev.size > 0)
       => hist.lastDev.buffer # NULL

\* C8: once a call of start_flash_proxy_task has returned, exactly one proxy
\* task and exactly one semaphore have been created, and from the moment the
\* handle is set neither the handle nor the numbers created change.
C8_StartIsIdempotent ==
  /\ [](\A c \in Callers :
         (call[c].op = "start" /\ pc[c] = "returned")
           => (tasksCreated = 1 /\ semsCreated = 1))
  /\ [][Handle # NULL
         => UNCHANGED <<flash_proxy_task_handle, tasksCreated, semsCreated>>]_vars

\* Caller c enters a read or prog that passes the handle test.
EnsuresCapacity(c) ==
  /\ pc[c] = "idle"
  /\ call'[c].op \in {"read", "prog"}
  /\ call'[c].started

\* C9: over a sequence of calls the recorded capacity never decreases and is
\* the largest size requested so far; after ensure_flash_proxy_buf_size(n) it
\* is at least n, and a call no larger than the capacity leaves pointer,
\* capacity and contents as they are.
C9_CapacityMonotone ==
  [][/\ flash_proxy_buf_size' >= flash_proxy_buf_size
     /\ flash_proxy_buf_size' = hist'.maxReq
     /\ \A c \in Callers :
          EnsuresCapacity(c) =>
            /\ flash_proxy_buf_size' >= call'[c].size
            /\ (flash_proxy_buf # NULL /\ call'[c].size <= flash_proxy_buf_size)
                 => UNCHANGED <<flash_proxy_buf, flash_proxy_buf_size, bufMem>>]_vars

\* A one-byte call has passed ensure_flash_proxy_buf_size with a larger buffer
\* in place.
C9_Witness ==
  \E c \in Callers :
    /\ pc[c] \in {"compose", "stage"}
    /\ call[c].op \in {"read", "prog"}
    /\ call[c].size = 1
    /\ flash_proxy_buf # NULL
    /\ flash_proxy_buf_size = BlockSize
    /\ Len(bufMem) = BlockSize

\* C10: a request served right after one whose device call failed is executed
\* as composed (kind, device, offset, buffer, length), its result is that of
\* its own device call, and a read whose device call succeeded returns the
\* bytes the device holds in the range.
C10_FailureDoesNotStick ==
  \A c \in Callers :
    (PastWait(c) /\ hist.prevFailed) =>
      /\ LastDevIsOwn(c)
      /\ hist.lastDev.buffer = (IF call[c].op = "erase" THEN NULL ELSE flash_proxy_buf)
      /\ flash_op_result = (IF taskErr[Handle] = ESP_OK THEN 0 ELSE LFS_ERR_IO)
      /\ (pc[c] = "returned" /\ call[c].op = "read" /\ taskErr[Handle] = ESP_OK)
           => call[c].out = Range(flash[call[c].partition], call[c].part_off,
                                  call[c].size)

\* A read served right after a failed request returns programmed bytes.
C10_Witness ==
  \E c \in Callers :
    /\ PastWait(c)
    /\ hist.prevFailed
    /\ pc[c] = "returned"
    /\ call[c].op = "read"
    /\ taskErr[Handle] = ESP_OK
    /\ flash_op_result = 0
    /\ call[c].out[1] = "AA"

\* The arguments of caller c's call name a range inside one block of the device.
ValidPair(c) ==
  /\ call[c].block \in Blocks
  /\ call[c].off + call[c].size <= call[c].block_size

\* Caller c has populated the request slot (lines 152-156, 175-179, 194-198).
Composed(c) ==
  /\ call[c].op \in FsOps
  /\ call[c].started
  /\ pc[c] \in {"notify", "take", "blocked", "copyout", "returned"}

\* C11: for a read or prog of a valid (block, off) pair, the offset in the
\* request, and the offset of the device call made for it, is
\* block * block_size + off as an unbounded integer: the word arithmetic of the
\* code does not wrap inside the device.
C11_AbsoluteOffset ==
  \A c \in Callers :
    (call[c].op \in {"read", "prog"} /\ ValidPair(c)) =>
      /\ Composed(c) =>
           current_flash_op.part_off
             = (call[c].block * call[c].block_size) + call[c].off
      /\ PastWait(c) =>
           hist.lastDev.off = (call[c].block * call[c].block_size) + call[c].off

\* A prog of the last byte of the device has been served at offset DevSize - 1.
C11_Witness ==
  \E c \in Callers :
    /\ PastWait(c)
    /\ call[c].op = "prog"
    /\ call[c].block = BlockCount - 1
    /\ call[c].off = BlockSize - 1
    /\ hist.lastDev.off = DevSize - 1
    /\ current_flash_op.part_off = DevSize - 1

\* The erase request of block b of partition p with block size bs.
EraseRequest(p, b, bs) ==
  [type |-> FLASH_OP_ERASE, partition |-> p, part_off |-> b * bs, buffer |-> NULL,
   size |-> bs]

\* C12: an erase of block b puts into the request slot, and the device
\* observes exactly once, an erase-range call at offset b * block_size of size
\* block_size with no buffer, whatever the previous request left in the slot.
C12_EraseOneFullBlock ==
  \A c \in Callers :
    (call[c].op = "erase" /\ call[c].block \in Blocks) =>
      LET req == EraseRequest(call[c].partition, call[c].block, call[c].block_size)
      IN /\ Composed(c) => current_flash_op = req
         /\ PastWait(c) =>
              /\ call[c].served = 1
              /\ hist.lastDev = [kind |-> req.type, partition |-> req.partition,
                                 off |-> req.part_off, buffer |-> NULL,
                                 size |-> req.size]

\* Block 1 was erased by the request that followed a read or prog, which had
\* left the scratch pointer in the slot.
C12_Witness ==
  \E c \in Callers :
    /\ PastWait(c)
    /\ call[c].op = "erase"
    /\ call[c].block = 1
    /\ flash_proxy_buf # NULL
    /\ hist.devCalls = 2
    /\ hist.lastDev.off = BlockSize
    /\ hist.lastDev.size = BlockSize
    /\ taskErr[Handle] = ESP_OK

\* Caller c enters littlefs_api_sync.
EntersSync(c) == pc[c] = "idle" /\ pc'[c] # "idle" /\ call'[c].op = "sync"

\* C13: littlefs_api_sync returns 0 in the step that enters it, whatever the
\* state: it emits no wake, causes no device call and changes neither the
\* request slot, the result, the scratch buffer, the handles, the signals nor
\* the device.
C13_SyncIsNoOp ==
  [][\A c \in Callers :
       EntersSync(c) =>
         /\ pc'[c] = "returned"
         /\ call'[c].ret = 0
         /\ hist'.wakes = hist.wakes
         /\ hist'.devCalls = hist.devCalls
         /\ UNCHANGED <<current_flash_op, flash_op_result, flash_proxy_buf,
                        flash_proxy_buf_size, bufMem, flash_proxy_task_handle,
                        operation_done_sem, notifyVal, semCount, taskPc, flash>>]_vars

\* A sync has returned while another caller's request is being executed.
C13_Witness ==
  \E c \in Callers, d \in Callers :
    /\ c # d
    /\ pc[c] = "returned"
    /\ call[c].op = "sync"
    /\ call[c].ret = 0
    /\ pc[d] = "blocked"
    /\ taskPc[Handle] = "dispatch"

\* The request the entry point of caller c's call composes.
RequestOf(c) ==
  [type |-> KindOf(call[c].op), partition |-> call[c].partition,
   part_off |-> call[c].part_off,
   buffer |-> IF call[c].op = "erase" THEN NULL ELSE flash_proxy_buf,
   size |-> LengthOf(c)]

\* The scratch buffer holds the data of caller c's prog.
Staged(c) == \A i \in 1 .. call[c].size : bufMem[i] = call[c].data[i]

\* Some proxy task is between its wake and its give.
Executing == \E t \in TaskIds : taskPc[t] \in {"dispatch", "give"}

\* C14: the events of a call come in order. Until the wake is emitted nothing
\* was executed for the call; when the wake is emitted every field of the
\* request is populated and a prog's data is staged; the proxy task is between
\* its wake and its give only while the call that woke it is at its wait; and
\* the caller is past its wait (copying out, returning) only after the device
\* call was made, the result written and the completion signal given and
\* taken.
C14_CallOrdering ==
  \A c \in {1} :
    (call[c].op \in FsOps /\ call[c].started /\ ~panicked) =>
      /\ pc[c] \in {"stage", "compose", "notify"} =>
           /\ call[c].served = 0
           /\ ~Executing
           /\ hist.wakes = hist.devCalls
      /\ pc[c] \in {"notify", "take", "blocked"} =>
           /\ current_flash_op = RequestOf(c)
           /\ (call[c].op = "prog" /\ call[c].served = 0) => Staged(c)
      /\ Executing => pc[c] \in {"take", "blocked"}
      /\ PastWait(c) =>
           /\ call[c].served = 1
           /\ ~Executing
           /\ semCount[call[c].sem] = 0
           /\ flash_op_result = ResultOf(taskErr[Handle], 0)

\* The device call of a prog was made and its result written while the caller
\* still waits for the completion signal.
C14_Witness ==
  \E c \in {1} :
    /\ call[c].op = "prog"
    /\ pc[c] = "blocked"
    /\ taskPc[Handle] = "give"
    /\ call[c].served = 1
    /\ semCount[call[c].sem] = 0
    /\ flash[call[c].partition][call[c].part_off] = "AA"

\* The request slot, the result and the scratch buffer.
sharedVars ==
  <<current_flash_op, flash_op_result, flash_proxy_buf, flash_proxy_buf_size, bufMem>>

\* Caller c takes a step of a read, prog or erase that reads or writes the
\* request slot, the result or the scratch buffer: every step of the call but
\* those of its wait.
ClientAccesses(c) ==
  /\ pc'[c] # pc[c]
  /\ \/ pc[c] \in {"stage", "compose", "copyout"}
     \/ pc[c] = "idle" /\ call'[c].op \in FsOps /\ call'[c].started

\* A proxy task takes a step.
ExecutorSteps == taskPc' # taskPc /\ pc' = pc

\* C15: strict alternation with one caller. While the wake is pending or the
\* proxy task is between its wake and its give the caller is at its wait and
\* its steps leave the request slot, the result and the scratch buffer alone;
\* the caller reads, writes or reallocates them only when nothing is pending
\* and no proxy task is executing; and the proxy task steps only while the
\* caller is at its wait.
C15_StrictAlternation ==
  [][\A c \in {1} :
       /\ (Executing \/ notifyVal # [t \in TaskIds |-> 0]) => InFlight(c)
       /\ (InFlight(c) /\ pc'[c] # pc[c]) => UNCHANGED sharedVars
       /\ ClientAccesses(c) =>
            (~Executing /\ notifyVal = [t \in TaskIds |-> 0])
       /\ ExecutorSteps => InFlight(c)]_vars

\* The proxy task is executing a read into the reallocated scratch buffer while
\* the caller is blocked.
C15_Witness ==
  \E c \in {1} :
    /\ pc[c] = "blocked"
    /\ call[c].op = "read"
    /\ hist.grown
    /\ taskPc[Handle] = "give"
    /\ bufMem # [i \in 1 .. Len(bufMem) |-> Uninit]

\* Proxy task t has executed the request it was woken for.
Served(t) ==
  /\ ~panicked
  /\ \/ taskPc[t] = "give"
     \/ taskPc[t] = "wait" /\ notifyVal[t] = 0 /\ hist.wakes > 0

\* C16: the result the proxy task records is two-valued. Once it has executed
\* a request, flash_op_result is 0 if the device call returned ESP_OK and
\* LFS_ERR_IO for any other status; a request of a type other than read, write
\* or erase gives LFS_ERR_IO with no device call made, the device and the
\* scratch buffer untouched; and when the task is back at its wait the
\* semaphore has been given.
C16_TwoValuedResult ==
  \A t \in TaskIds :
    Served(t) =>
      /\ flash_op_result = (IF taskErr[t] = ESP_OK THEN 0 ELSE LFS_ERR_IO)
      /\ IsDeviceKind(current_flash_op.type) =>
           /\ hist.devCalls = 1
           /\ hist.lastDev.kind = current_flash_op.type
      /\ ~IsDeviceKind(current_flash_op.type) =>
           /\ flash_op_result = LFS_ERR_IO
           /\ hist.devCalls = 0
           /\ flash = [p \in Partitions |-> [a \in 0 .. (DevSize - 1) |-> ErasedByte]]
      /\ taskPc[t] = "wait" => semCount[operation_done_sem] = 1

\* A request of type FLASH_OP_INVALID was answered with LFS_ERR_IO and the
\* completion signal, with no device call.
C16_Witness ==
  \E t \in TaskIds :
    /\ Served(t)
    /\ taskPc[t] = "wait"
    /\ current_flash_op.type = FLASH_OP_INVALID
    /\ flash_op_result = LFS_ERR_IO
    /\ hist.devCalls = 0
    /\ semCount[operation_done_sem] = 1

\* Proxy task t has been notified or is dispatching on the type of the slot.
Consuming(t) == notifyVal[t] > 0 \/ taskPc[t] = "dispatch"

\* C17: whenever a proxy task has been woken or dispatches on the type of the
\* request, the type is read, write or erase: FLASH_OP_NONE of the initial
\* slot and FLASH_OP_INVALID are never consumed, for any interleaving of
\* callers.
C17_KindAtConsumption ==
  \A t \in TaskIds : Consuming(t) => IsDeviceKind(current_flash_op.type)

\* The first request ever, an erase, is being dispatched.
C17_Witness ==
  \E t \in TaskIds :
    /\ taskPc[t] = "dispatch"
    /\ hist.wakes = 1
    /\ hist.devCalls = 0
    /\ current_flash_op.type = FLASH_OP_ERASE

\* No caller is inside an entry point.
Quiescent == \A c \in Callers : pc[c] \in {"idle", "returned"}

\* C18: with one caller, whenever no entry point is in progress no wake is
\* pending, every semaphore is empty and every proxy task created is parked in
\* its wait; a caller finds the semaphore full only after its own request was
\* executed; and the proxy task never gives a semaphore that is already full.
C18_NoStaleSignals ==
  /\ Quiescent =>
       /\ \A t \in TaskIds : notifyVal[t] = 0 /\ taskPc[t] \in {"absent", "wait"}
       /\ \A s \in SemIds : semCount[s] = 0
  /\ \A c \in Callers :
       (pc[c] = "blocked" /\ semCount[call[c].sem] = 1) =>
         (call[c].served = 1 /\ hist.servedOwner = c)
  /\ \A t \in TaskIds :
       (taskPc[t] = "give" /\ operation_done_sem # NULL) =>
         semCount[operation_done_sem] = 0

\* The system is at rest after two requests were served.
C18_Witness ==
  /\ Quiescent
  /\ ~panicked
  /\ hist.wakes = 2
  /\ hist.devCalls = 2
  /\ Handle # NULL
  /\ taskPc[Handle] = "wait"
  /\ operation_done_sem # NULL

\* C19: in every reachable state a handle that is set comes with a semaphore
\* that exists, so that no caller takes and no proxy task gives a NULL
\* semaphore.
C19_HandleImpliesSemaphore ==
  Handle # NULL => operation_done_sem # NULL

\* C20: whenever a proxy task performs a device read or write, the buffer of
\* the request is the current flash_proxy_buf and the length of the request
\* is at most flash_proxy_buf_size; whenever it performs an erase the buffer of
\* the request is NULL.
C20_BufferIsCurrent ==
  \A t \in TaskIds :
    taskPc[t] = "dispatch" =>
      /\ current_flash_op.type \in {FLASH_OP_READ, FLASH_OP_WRITE} =>
           /\ current_flash_op.buffer = flash_proxy_buf
           /\ current_flash_op.size <= flash_proxy_buf_size
      /\ current_flash_op.type = FLASH_OP_ERASE => current_flash_op.buffer = NULL

\* A device write is about to be made from the buffer that realloc has moved.
C20_Witness ==
  \E t \in TaskIds :
    /\ taskPc[t] = "dispatch"
    /\ current_flash_op.type = FLASH_OP_WRITE
    /\ hist.grown
    /\ flash_proxy_buf # NULL
    /\ flash_proxy_buf # FirstAddr
    /\ current_flash_op.buffer = flash_proxy_buf
    /\ current_flash_op.size = BlockSize

====
